---------------------------- MODULE Spec2Model ----------------------------
(***************************************************************************)
(* A model of finance2/app.py: the loan ledger kept in two tables, User    *)
(* and Payment, and the request handlers add_user, record_payment,         *)
(* view_history, download and index that read and write them.              *)
(*                                                                         *)
(* Text (a form field, a user name, a note) is a sequence of one-character *)
(* strings, so that strip, lower, re.sub and float() are computed          *)
(* character by character as the code computes them.                       *)
(*                                                                         *)
(* A Python float is a binary floating-point number rounded to nearest,    *)
(* ties to even.  The model keeps that arithmetic and scales the width of  *)
(* the significand from 53 bits to PrecisionBits bits, and the unit from   *)
(* 2^-1074 to 1: every float of the model is an integer, and the integers  *)
(* that need more than PrecisionBits significant bits are not floats.      *)
(***************************************************************************)
EXTENDS Integers, Sequences, FiniteSets, TLC

\* ------------------------------------------------------------------ bounds
\* Width of the significand of the model's floats (CPython's is 53).
PrecisionBits == 3
\* Rows the User table may hold.
MaxUsers == 2
\* Rows the Payment table may hold, opening entries included.
MaxPayments == 3
\* Longest generated input of the normalisation specification.
MaxNameLen == 3

\* -------------------------------------------------------------------- text
UpperLetters ==
  << "A", "B", "C", "D", "E", "F", "G", "H", "I", "J", "K", "L", "M",
     "N", "O", "P", "Q", "R", "S", "T", "U", "V", "W", "X", "Y", "Z" >>

LowerLetters ==
  << "a", "b", "c", "d", "e", "f", "g", "h", "i", "j", "k", "l", "m",
     "n", "o", "p", "q", "r", "s", "t", "u", "v", "w", "x", "y", "z" >>

Digits == << "0", "1", "2", "3", "4", "5", "6", "7", "8", "9" >>

Range(s) == { s[i] : i \in DOMAIN s }

\* The characters Python's str.strip() and the regular expression \s treat
\* as whitespace, among the characters of the model's inputs.
IsSpace(c) == c \in { " ", "\t", "\n" }

UpperSet == Range(UpperLetters)

LowerSet == Range(LowerLetters)

DigitSet == Range(Digits)

LowerOf ==
  [ c \in UpperSet |->
      LowerLetters[CHOOSE i \in DOMAIN UpperLetters : UpperLetters[i] = c] ]

\* str.lower() on one character.
LowerChar(c) == IF c \in UpperSet THEN LowerOf[c] ELSE c

\* str.lower()
lower(s) == [ i \in DOMAIN s |-> LowerChar(s[i]) ]

RECURSIVE lstrip(_)
lstrip(s) ==
  IF s # << >> /\ IsSpace(Head(s)) THEN lstrip(Tail(s)) ELSE s

RECURSIVE rstrip(_)
rstrip(s) ==
  IF s # << >> /\ IsSpace(s[Len(s)])
    THEN rstrip(SubSeq(s, 1, Len(s) - 1))
    ELSE s

\* str.strip()
strip(s) == rstrip(lstrip(s))

\* re.sub(r"\s+", "_", s): every maximal run of whitespace becomes one "_".
RECURSIVE sub_whitespace(_)
sub_whitespace(s) ==
  IF s = << >> THEN << >>
  ELSE IF IsSpace(Head(s)) THEN << "_" >> \o sub_whitespace(lstrip(s))
  ELSE << Head(s) >> \o sub_whitespace(Tail(s))

\* The character class [a-z0-9_\-].
KeyChars == LowerSet \cup DigitSet \cup { "_", "-" }

IsKeyChar(c) == c \in KeyChars

\* re.sub(r"[^a-z0-9_\-]", "", s)
sub_disallowed(s) == SelectSeq(s, IsKeyChar)

\* sanitize_username without its first step, name.strip().
sanitize_username_nostrip(name) ==
  sub_disallowed(sub_whitespace(lower(name)))

sanitize_username(name) ==
  sub_disallowed(sub_whitespace(lower(strip(name))))

\* ------------------------------------------------------------------ floats
RECURSIVE Pow2(_)
Pow2(n) == IF n = 0 THEN 1 ELSE 2 * Pow2(n - 1)

Abs(x) == IF x < 0 THEN -x ELSE x

\* The spacing of the floats around magnitude a: the least power of two q
\* with a < 2^PrecisionBits * q.
RECURSIVE QuantumFrom(_, _)
QuantumFrom(a, q) ==
  IF a < Pow2(PrecisionBits) * q THEN q ELSE QuantumFrom(a, 2 * q)

\* The float nearest to the exact value x, ties to the even significand.
RoundFloat(x) ==
  LET a == Abs(x)
      q == QuantumFrom(a, 1)
      m == a \div q
      r == a % q
      up == (2 * r > q) \/ (2 * r = q /\ m % 2 = 1)
      mag == (IF up THEN m + 1 ELSE m) * q
  IN  IF x < 0 THEN -mag ELSE mag

\* float.__sub__ and float.__add__
FloatSub(a, b) == RoundFloat(a - b)

FloatAdd(a, b) == RoundFloat(a + b)

DigitValueOf ==
  [ c \in DigitSet |-> (CHOOSE i \in DOMAIN Digits : Digits[i] = c) - 1 ]

DigitValue(c) == DigitValueOf[c]

RECURSIVE DecimalValue(_)
DecimalValue(ds) ==
  IF ds = << >> THEN 0
  ELSE 10 * DecimalValue(SubSeq(ds, 1, Len(ds) - 1)) + DigitValue(ds[Len(ds)])

\* float(text) for the texts of the model's inputs (whitespace, a sign,
\* decimal digits and characters that are none of these): surrounding
\* whitespace is ignored, then an optional sign and at least one digit are
\* required; anything else raises ValueError (ok = FALSE).
ParseFloat(text) ==
  LET t == strip(text)
      signed == t # << >> /\ Head(t) \in { "+", "-" }
      ds == IF signed THEN Tail(t) ELSE t
      ok == ds # << >> /\ \A i \in DOMAIN ds : ds[i] \in DigitSet
      n == IF ok THEN DecimalValue(ds) ELSE 0
  IN  [ ok |-> ok,
        val |-> RoundFloat(IF signed /\ Head(t) = "-" THEN -n ELSE n) ]

\* repr(x) of a float with an integer value, as f"{x}" renders it: the
\* decimal digits of the value followed by ".0", after a "-" when negative.
RECURSIVE DecimalDigits(_)
DecimalDigits(n) ==
  IF n < 10 THEN << Digits[n + 1] >>
  ELSE DecimalDigits(n \div 10) \o << Digits[(n % 10) + 1] >>

FormatFloat(x) ==
  (IF x < 0 THEN << "-" >> ELSE << >>) \o DecimalDigits(Abs(x)) \o << ".", "0" >>

\* ------------------------------------------------------------------ inputs
\* The requests: the values of their form fields and URL parameters.
AddUserForm(name, total_loan, contact_info) ==
  [ name |-> name, total_loan |-> total_loan, contact_info |-> contact_info ]

AddUserRequests ==
  { AddUserForm(<< >>, << "1", "0" >>, << >>),
    AddUserForm(<< " " >>, << "1", "0" >>, << >>),
    AddUserForm(<< "A", "l" >>, << >>, << >>),
    AddUserForm(<< "A", "l" >>, << "x" >>, << >>),
    AddUserForm(<< "A", "l" >>, << "1", "0" >>, << >>),
    AddUserForm(<< "a", "l", " " >>, << " ", "4" >>, << "c" >>),
    AddUserForm(<< "B", " ", "o" >>, << " ", "4" >>, << >>),
    AddUserForm(<< "!" >>, << "1", "0" >>, << >>) }

\* request.form.get('username'): the empty text stands for a field that is
\* empty or absent (None), which `not username` treats alike.
PaymentForm(username, payment_amount, notes) ==
  [ username |-> username, payment_amount |-> payment_amount, notes |-> notes ]

PaymentRequests ==
  { PaymentForm(<< >>, << "1" >>, << >>),
    PaymentForm(<< "a", "l" >>, << >>, << >>),
    PaymentForm(<< "a", "l" >>, << "x" >>, << "n" >>),
    PaymentForm(<< "A", "l" >>, << "1" >>, << >>),
    PaymentForm(<< "a", "l" >>, << "1" >>, << >>),
    PaymentForm(<< "a", "l" >>, << "-", "1", "0" >>, << "n" >>),
    PaymentForm(<< "b", "_", "o" >>, << " ", "1" >>, << "n" >>) }

\* The <username> segment of a URL: the router matches no empty segment.
UrlUsernames == { << "a", "l" >>, << "b", "_", "o" >>, << "A", "l" >> }

\* The calendar days the requests fall on.
Days == 0 .. 1

\* ------------------------------------------------------------------- state
VARIABLES
  users,      \* the User table, in id order
  payments,   \* the Payment table, in id order
  today,      \* the day datetime.now() falls on
  response,   \* what the last finished request answered
  wpc,        \* per worker: the place its request has reached
  wreq,       \* per worker: the request's fields and local variables
  nraw,       \* normalisation: the raw name
  nkey,       \* normalisation: the key computed from it
  npc         \* normalisation: "input" or "done"

vars == << users, payments, today, response, wpc, wreq, nraw, nkey, npc >>

store == << users, payments >>

Workers == { 1, 2 }

NoRequest == [ handler |-> "none" ]

\* ---------------------------------------------------------------- queries
\* User.query.filter_by(username=uname).first(): the row's index, 0 for None.
\* The mutant answers with the first row when no row matches.
UserByUsernameOrFirst(us, uname) ==
  IF \E i \in DOMAIN us : us[i].username = uname
    THEN CHOOSE i \in DOMAIN us :
           /\ us[i].username = uname
           /\ \A j \in DOMAIN us : us[j].username = uname => i <= j
    ELSE IF us # << >> THEN 1 ELSE 0

UserByUsername(us, uname) ==
  IF \E i \in DOMAIN us : us[i].username = uname
    THEN CHOOSE i \in DOMAIN us :
           /\ us[i].username = uname
           /\ \A j \in DOMAIN us : us[j].username = uname => i <= j
    ELSE 0

\* Payment.query.filter_by(user_id=uid).order_by(Payment.id.asc()).all()
PaymentsOf(ps, uid) == SelectSeq(ps, LAMBDA p : p.user_id = uid)

\* The check of add_user that the key is free; the mutant never finds a row.
username_taken_never(us, uname) == FALSE

username_taken(us, uname) == UserByUsername(us, uname) # 0

\* The unique constraint on User.username, checked by the database when the
\* transaction commits; the mutant is the column without unique=True.
unique_violation_never(us, uname) == FALSE

unique_violation(us, uname) == \E i \in DOMAIN us : us[i].username = uname

\* ------------------------------------------------------------------- rows
NewUser(us, name, uname, total_loan_val, contact_info, now) ==
  [ id |-> Len(us) + 1, name |-> name, username |-> uname,
    total_loan |-> total_loan_val, contact_info |-> contact_info,
    created_at |-> now ]

\* 'Loan started' + (f' | {contact_info}' if contact_info else '')
OpeningNotes(contact_info) ==
  << "Loan started" >>
    \o (IF contact_info # << >> THEN << " | " >> \o contact_info ELSE << >>)

\* The mutant books the loan as the opening entry's payment amount.
OpeningPaymentSwapped(ps, uid, total_loan_val, contact_info, now) ==
  [ id |-> Len(ps) + 1, user_id |-> uid, date |-> now,
    payment_amount |-> total_loan_val, remaining_balance |-> 0,
    notes |-> OpeningNotes(contact_info) ]

OpeningPayment(ps, uid, total_loan_val, contact_info, now) ==
  [ id |-> Len(ps) + 1, user_id |-> uid, date |-> now,
    payment_amount |-> 0, remaining_balance |-> total_loan_val,
    notes |-> OpeningNotes(contact_info) ]

NewPayment(ps, uid, payment_val, new_balance, notes, now) ==
  [ id |-> Len(ps) + 1, user_id |-> uid, date |-> now,
    payment_amount |-> payment_val, remaining_balance |-> new_balance,
    notes |-> notes ]

\* db.session.add(payment): the mutant writes over the table's last row.
session_add_overwrite(ps, p) ==
  IF ps = << >> THEN << p >>
  ELSE SubSeq(ps, 1, Len(ps) - 1) \o << [ p EXCEPT !.id = Len(ps) ] >>

session_add(ps, p) == Append(ps, p)

\* The payments add_user commits with the new user; the mutant commits the
\* user alone.
AddUserPaymentsNone(ps, uid, total_loan_val, contact_info, now) == ps

AddUserPayments(ps, uid, total_loan_val, contact_info, now) ==
  session_add(ps, OpeningPayment(ps, uid, total_loan_val, contact_info, now))

\* datetime.now().strftime('%Y-%m-%d'), the days counted from 2024-01-01.
DateText(day) ==
  << "2", "0", "2", "4", "-", "0", "1", "-" >>
    \o (IF day + 1 < 10 THEN << "0" >> ELSE << >>) \o DecimalDigits(day + 1)

\* The mutant of the balance below takes 0 for a user without a payment.
PrevBalanceZero(us, ps, uid) ==
  LET ledger == PaymentsOf(ps, uid)
  IN  IF ledger # << >> THEN ledger[Len(ledger)].remaining_balance
      ELSE 0

\* prev_balance of record_payment: the balance of the user's last payment,
\* the user's total_loan when the user has none.
PrevBalance(us, ps, uid) ==
  LET ledger == PaymentsOf(ps, uid)
  IN  IF ledger # << >> THEN ledger[Len(ledger)].remaining_balance
      ELSE us[uid].total_loan

\* `if not name or not total_loan`, `if not username or not payment_amount`:
\* a required field is empty.  The mutant asks for both to be empty.
fields_missing_both(a, b) == a = << >> /\ b = << >>

fields_missing(a, b) == a = << >> \/ b = << >>

\* -------------------------------------------------------------- responses
Flash(handler, outcome, category) ==
  [ handler |-> handler, outcome |-> outcome, category |-> category ]

\* list_users(): the usernames in the order of ORDER BY username, taken as
\* the order of the characters' code points.
CharOrder ==
  << "\t", "\n", " ", "!", "*", "+", "-" >> \o Digits \o UpperLetters
    \o << "_" >> \o LowerLetters

CharCode(c) == CHOOSE i \in DOMAIN CharOrder : CharOrder[i] = c

RECURSIVE TextLess(_, _)
TextLess(a, b) ==
  IF b = << >> THEN FALSE
  ELSE IF a = << >> THEN TRUE
  ELSE IF Head(a) = Head(b) THEN TextLess(Tail(a), Tail(b))
  ELSE CharCode(Head(a)) < CharCode(Head(b))

RECURSIVE InsertSorted(_, _)
InsertSorted(sorted, k) ==
  IF sorted = << >> THEN << k >>
  ELSE IF TextLess(k, Head(sorted)) THEN << k >> \o sorted
  ELSE << Head(sorted) >> \o InsertSorted(Tail(sorted), k)

RECURSIVE SortTexts(_)
SortTexts(ks) ==
  IF ks = << >> THEN << >>
  ELSE InsertSorted(SortTexts(SubSeq(ks, 1, Len(ks) - 1)), ks[Len(ks)])

\* The mutant of the query below leaves out its ORDER BY.
list_users_unsorted(us) == [ i \in DOMAIN us |-> us[i].username ]

list_users(us) == SortTexts([ i \in DOMAIN us |-> us[i].username ])

\* sum((r.payment_amount for r in records), 0.0): float additions, left to
\* right.
RECURSIVE FloatSum(_)
FloatSum(records) ==
  IF records = << >> THEN 0
  ELSE FloatAdd(FloatSum(SubSeq(records, 1, Len(records) - 1)),
                records[Len(records)].payment_amount)

\* The dict view_history builds for one Payment.
RecordDict(r) ==
  [ Date |-> r.date, Payment_Amount |-> FormatFloat(r.payment_amount),
    Remaining_Balance |-> FormatFloat(r.remaining_balance), Notes |-> r.notes ]

\* csv.writer: a field holding the delimiter, the quote character or a
\* line break is quoted, its quote characters doubled.
RECURSIVE DoubleQuotes(_)
DoubleQuotes(f) ==
  IF f = << >> THEN << >>
  ELSE (IF Head(f) = "\"" THEN << "\"", "\"" >> ELSE << Head(f) >>)
         \o DoubleQuotes(Tail(f))

CsvField(f) ==
  IF \E i \in DOMAIN f : f[i] \in { ",", "\"", "\r", "\n" }
    THEN << "\"" >> \o DoubleQuotes(f) \o << "\"" >>
    ELSE f

RECURSIVE CsvJoin(_)
CsvJoin(fields) ==
  IF fields = << >> THEN << >>
  ELSE IF Len(fields) = 1 THEN CsvField(fields[1])
  ELSE CsvField(Head(fields)) \o << "," >> \o CsvJoin(Tail(fields))

\* writer.writerow(fields)
writerow(fields) == CsvJoin(fields) \o << "\r", "\n" >>

CSV_HEADERS ==
  << << "Date" >>, << "Payment_Amount" >>, << "Remaining_Balance" >>,
     << "Notes" >> >>

\* The mutant of the rows below writes the balance before the amount.
RECURSIVE CsvRowsSwapped(_)
CsvRowsSwapped(records) ==
  IF records = << >> THEN << >>
  ELSE writerow(<< Head(records).date,
                   FormatFloat(Head(records).remaining_balance),
                   FormatFloat(Head(records).payment_amount),
                   Head(records).notes >>)
         \o CsvRowsSwapped(Tail(records))

RECURSIVE CsvRows(_)
CsvRows(records) ==
  IF records = << >> THEN << >>
  ELSE writerow(<< Head(records).date,
                   FormatFloat(Head(records).payment_amount),
                   FormatFloat(Head(records).remaining_balance),
                   Head(records).notes >>)
         \o CsvRows(Tail(records))

\* --------------------------------------------------------- initial states
StoreInit ==
  /\ users = << >>
  /\ payments = << >>
  /\ today = 0
  /\ response = NoRequest

WorkersIdle ==
  /\ wpc = [ w \in Workers |-> "idle" ]
  /\ wreq = [ w \in Workers |-> NoRequest ]

NormOff ==
  /\ nraw = << >>
  /\ nkey = << >>
  /\ npc = "off"

Init == StoreInit /\ WorkersIdle /\ NormOff

\* The database is the one DATABASE_URL names, and db.create_all() keeps the
\* rows it finds there: the tables may hold, before the first request, a
\* user row that was written without any Payment row.
OrphanUsers ==
  { << NewUser(<< >>, << "A", "l" >>, << "a", "l" >>, 10, << >>, 0) >>,
    << NewUser(<< >>, << "B", " ", "o" >>, << "b", "_", "o" >>, 4, << >>, 0) >> }

InitOrphan ==
  /\ users \in OrphanUsers
  /\ payments = << >>
  /\ today = 0
  /\ response = NoRequest
  /\ WorkersIdle
  /\ NormOff

\* The tables have room for the rows add_user adds, and for the row
\* record_payment adds.
HasRoom == Len(users) < MaxUsers /\ Len(payments) < MaxPayments

PaymentsHaveRoom == Len(payments) < MaxPayments

\* ------------------------------------- handlers, one request at a time
\* POST /add_user
add_user(name_in, total_loan_in, contact_in) ==
  LET name == strip(name_in)
      total_loan == strip(total_loan_in)
      contact_info == strip(contact_in)
      parsed == ParseFloat(total_loan)
      uname == sanitize_username(name)
      now == DateText(today)
  IN  /\ HasRoom
      /\ IF fields_missing(name, total_loan)
           THEN /\ response' = Flash("add_user", "ValidationError", "danger")
                /\ UNCHANGED store
         ELSE IF ~parsed.ok
           THEN /\ response' = Flash("add_user", "ValidationError", "danger")
                /\ UNCHANGED store
         ELSE IF username_taken(users, uname)
           THEN /\ response' = Flash("add_user", "AlreadyExists", "warning")
                /\ UNCHANGED store
         ELSE IF unique_violation(users, uname)
           THEN /\ response' = Flash("add_user", "IntegrityError", "error")
                /\ UNCHANGED store
         ELSE /\ users' = Append(users, NewUser(users, name, uname, parsed.val,
                                                contact_info, today))
              /\ payments' = AddUserPayments(payments, Len(users) + 1,
                                             parsed.val, contact_info, now)
              /\ response' = [ handler |-> "add_user", outcome |-> "success",
                               category |-> "success", name |-> name ]
      /\ UNCHANGED << today, wpc, wreq, nraw, nkey, npc >>

\* POST /record_payment
record_payment(username, amount_in, notes_in) ==
  LET payment_amount == strip(amount_in)
      notes == strip(notes_in)
      parsed == ParseFloat(payment_amount)
      uid == UserByUsername(users, username)
      new_balance == FloatSub(PrevBalance(users, payments, uid), parsed.val)
  IN  /\ PaymentsHaveRoom
      /\ IF fields_missing(username, payment_amount)
           THEN /\ response' = Flash("record_payment", "ValidationError", "danger")
                /\ UNCHANGED store
         ELSE IF ~parsed.ok
           THEN /\ response' = Flash("record_payment", "ValidationError", "danger")
                /\ UNCHANGED store
         ELSE IF uid = 0
           THEN /\ response' = Flash("record_payment", "NotFound", "danger")
                /\ UNCHANGED store
         ELSE /\ payments' = session_add(payments,
                               NewPayment(payments, uid, parsed.val, new_balance,
                                          notes, DateText(today)))
              /\ response' = [ handler |-> "record_payment",
                               outcome |-> "success", category |-> "success",
                               username |-> username,
                               new_balance |-> new_balance ]
              /\ UNCHANGED users
      /\ UNCHANGED << today, wpc, wreq, nraw, nkey, npc >>

\* GET /view_history/<username>
view_history(username) ==
  LET uid == UserByUsername(users, username)
      records == PaymentsOf(payments, uid)
  IN  /\ response' =
           IF uid = 0 THEN Flash("view_history", "NotFound", "danger")
           ELSE [ handler |-> "view_history", outcome |-> "ok",
                  username |-> username,
                  users |-> list_users(users),
                  records |-> [ i \in DOMAIN records |-> RecordDict(records[i]) ],
                  total_paid |-> FloatSum(records),
                  remaining_balance |->
                    IF records # << >>
                      THEN records[Len(records)].remaining_balance
                      ELSE users[uid].total_loan ]
      /\ UNCHANGED << users, payments, today, wpc, wreq, nraw, nkey, npc >>

\* GET /download/<username>
download(username) ==
  LET uid == UserByUsername(users, username)
      records == PaymentsOf(payments, uid)
  IN  /\ response' =
           IF uid = 0 THEN [ handler |-> "download", outcome |-> "NotFound" ]
           ELSE [ handler |-> "download", outcome |-> "ok",
                  download_name |-> username \o << ".csv" >>,
                  mimetype |-> "text/csv",
                  body |-> writerow(CSV_HEADERS) \o CsvRows(records) ]
      /\ UNCHANGED << users, payments, today, wpc, wreq, nraw, nkey, npc >>

\* GET /
index ==
  /\ response' = [ handler |-> "index", outcome |-> "ok",
                   users |-> list_users(users) ]
  /\ UNCHANGED << users, payments, today, wpc, wreq, nraw, nkey, npc >>

\* GET /health
health ==
  /\ response' = [ handler |-> "health", outcome |-> "ok" ]
  /\ UNCHANGED << users, payments, today, wpc, wreq, nraw, nkey, npc >>

\* The calendar day changes between two requests.
Midnight ==
  /\ today + 1 \in Days
  /\ today' = today + 1
  /\ UNCHANGED << users, payments, response, wpc, wreq, nraw, nkey, npc >>

Next ==
  \/ \E q \in AddUserRequests : add_user(q.name, q.total_loan, q.contact_info)
  \/ \E q \in PaymentRequests :
       record_payment(q.username, q.payment_amount, q.notes)
  \/ \E u \in UrlUsernames : view_history(u)
  \/ \E u \in UrlUsernames : download(u)
  \/ index
  \/ health
  \/ Midnight

Spec == Init /\ [][Next]_vars

\* The same requests, served from a database that held a user without
\* payments.
SpecOrphan == InitOrphan /\ [][Next]_vars

\* ------------------------------------------- handlers, requests interleaved
\* Two workers serve requests at once.  A request reads and writes the
\* database statement by statement; a step of a worker is one stretch of
\* its handler between two accesses to the tables, and db.session.commit()
\* makes the request's rows visible in one step.  The handlers that only
\* read take no part, and the day does not change meanwhile.

\* add_user up to its check that the key is free (the SELECT of line 101).
AU_Start(w, name_in, total_loan_in, contact_in) ==
  LET name == strip(name_in)
      total_loan == strip(total_loan_in)
      contact_info == strip(contact_in)
      parsed == ParseFloat(total_loan)
      uname == sanitize_username(name)
  IN  /\ wpc[w] = "idle"
      /\ HasRoom
      /\ IF fields_missing(name, total_loan) \/ ~parsed.ok
           THEN /\ wreq' = [ wreq EXCEPT ![w] =
                               Flash("add_user", "ValidationError", "danger") ]
                /\ UNCHANGED wpc
         ELSE IF username_taken(users, uname)
           THEN /\ wreq' = [ wreq EXCEPT ![w] =
                               Flash("add_user", "AlreadyExists", "warning") ]
                /\ UNCHANGED wpc
         ELSE /\ wreq' = [ wreq EXCEPT ![w] =
                             [ handler |-> "add_user", outcome |-> "pending",
                               name |-> name, uname |-> uname,
                               total_loan_val |-> parsed.val,
                               contact_info |-> contact_info ] ]
              /\ wpc' = [ wpc EXCEPT ![w] = "au_commit" ]
      /\ UNCHANGED << users, payments, today, response, nraw, nkey, npc >>

\* add_user from the construction of its rows to the commit: the INSERTs
\* fail as a whole when the key has been taken meanwhile.
AU_Commit(w) ==
  LET r == wreq[w]
  IN  /\ wpc[w] = "au_commit"
      /\ HasRoom
      /\ IF unique_violation(users, r.uname)
           THEN /\ wreq' = [ wreq EXCEPT ![w] =
                               Flash("add_user", "IntegrityError", "error") ]
                /\ UNCHANGED store
           ELSE /\ users' = Append(users, NewUser(users, r.name, r.uname,
                                     r.total_loan_val, r.contact_info, today))
                /\ payments' = AddUserPayments(payments, Len(users) + 1,
                                 r.total_loan_val, r.contact_info, DateText(today))
                /\ wreq' = [ wreq EXCEPT ![w].outcome = "success" ]
      /\ wpc' = [ wpc EXCEPT ![w] = "idle" ]
      /\ UNCHANGED << today, response, nraw, nkey, npc >>

\* record_payment up to the lookup of the user (the SELECT of line 137).
RP_Start(w, username, amount_in, notes_in) ==
  LET payment_amount == strip(amount_in)
      notes == strip(notes_in)
      parsed == ParseFloat(payment_amount)
      uid == UserByUsername(users, username)
  IN  /\ wpc[w] = "idle"
      /\ PaymentsHaveRoom
      /\ IF fields_missing(username, payment_amount) \/ ~parsed.ok
           THEN /\ wreq' = [ wreq EXCEPT ![w] =
                               Flash("record_payment", "ValidationError", "danger") ]
                /\ UNCHANGED wpc
         ELSE IF uid = 0
           THEN /\ wreq' = [ wreq EXCEPT ![w] =
                               Flash("record_payment", "NotFound", "danger") ]
                /\ UNCHANGED wpc
         ELSE /\ wreq' = [ wreq EXCEPT ![w] =
                             [ handler |-> "record_payment", outcome |-> "pending",
                               username |-> username, user_id |-> uid,
                               payment_val |-> parsed.val, notes |-> notes,
                               read_id |-> 0, prev_balance |-> 0,
                               new_balance |-> 0, payment_id |-> 0 ] ]
              /\ wpc' = [ wpc EXCEPT ![w] = "rp_read" ]
      /\ UNCHANGED << users, payments, today, response, nraw, nkey, npc >>

\* record_payment's read of the last payment (the SELECT of line 143) and
\* the balance it computes from it.
RP_Read(w) ==
  LET r == wreq[w]
      ledger == PaymentsOf(payments, r.user_id)
      prev_balance == PrevBalance(users, payments, r.user_id)
  IN  /\ wpc[w] = "rp_read"
      /\ wreq' = [ wreq EXCEPT
                     ![w].read_id =
                       IF ledger # << >> THEN ledger[Len(ledger)].id ELSE 0,
                     ![w].prev_balance = prev_balance,
                     ![w].new_balance = FloatSub(prev_balance, r.payment_val) ]
      /\ wpc' = [ wpc EXCEPT ![w] = "rp_commit" ]
      /\ UNCHANGED << users, payments, today, response, nraw, nkey, npc >>

\* The balance record_payment writes: the one it computed from the row it
\* read.  The mutant computes it anew from the table when it commits.
commit_balance_reread(r, us, ps) ==
  FloatSub(PrevBalance(us, ps, r.user_id), r.payment_val)

commit_balance(r, us, ps) == r.new_balance

\* record_payment's INSERT and commit.
RP_Commit(w) ==
  LET r == wreq[w]
  IN  /\ wpc[w] = "rp_commit"
      /\ PaymentsHaveRoom
      /\ payments' = session_add(payments,
                       NewPayment(payments, r.user_id, r.payment_val,
                                  commit_balance(r, users, payments), r.notes,
                                  DateText(today)))
      /\ wreq' = [ wreq EXCEPT ![w].outcome = "success",
                               ![w].payment_id = Len(payments) + 1 ]
      /\ wpc' = [ wpc EXCEPT ![w] = "idle" ]
      /\ UNCHANGED << users, today, response, nraw, nkey, npc >>

NextConc ==
  \/ \E w \in Workers, q \in AddUserRequests :
       AU_Start(w, q.name, q.total_loan, q.contact_info)
  \/ \E w \in Workers : AU_Commit(w)
  \/ \E w \in Workers, q \in PaymentRequests :
       RP_Start(w, q.username, q.payment_amount, q.notes)
  \/ \E w \in Workers : RP_Read(w)
  \/ \E w \in Workers : RP_Commit(w)

SpecConc == Init /\ [][NextConc]_vars

\* ------------------------------------------- the normalisation on its own
NormAlphabet == { "A", "b", " ", "\t", "!", "_", "-", "7" }

JohnDoe == << "J", "o", "h", "n", " ", "D", "o", "e" >>

SpacedExample == << " ", " ", "A", "!", "!", "b", " ", "*", "*", "C", " " >>

NormInputs ==
  UNION { [ 1..n -> NormAlphabet ] : n \in 0..MaxNameLen }
    \cup { JohnDoe, SpacedExample }

InitNorm ==
  /\ StoreInit
  /\ WorkersIdle
  /\ nraw \in NormInputs
  /\ nkey = << >>
  /\ npc = "input"

Normalize ==
  /\ npc = "input"
  /\ nkey' = sanitize_username(nraw)
  /\ npc' = "done"
  /\ UNCHANGED << users, payments, today, response, wpc, wreq, nraw >>

NextNorm == Normalize

SpecNorm == InitNorm /\ [][NextNorm]_vars

\* ------------------------------------------------------------------ claims
\* The ledger of user row u, and the exact (unrounded) sum of its amounts.
Ledger(u) == PaymentsOf(payments, u)

RECURSIVE ExactSum(_)
ExactSum(ledger) ==
  IF ledger = << >> THEN 0
  ELSE ExactSum(SubSeq(ledger, 1, Len(ledger) - 1))
         + ledger[Len(ledger)].payment_amount

IsPrefix(a, b) == Len(a) <= Len(b) /\ SubSeq(b, 1, Len(a)) = a

\* C1 (as claimed): with one request at a time, in every user's ledger the
\* opening entry's balance is the principal, every later entry's balance is
\* the balance before it minus its own amount, and so the last balance is
\* the principal minus the sum of all the amounts, whatever their sign or
\* size.
C1_BalanceIsPrincipalMinusPayments ==
  \A u \in DOMAIN users :
    LET ledger == Ledger(u)
    IN  ledger # << >> =>
          /\ ledger[1].remaining_balance = users[u].total_loan
          /\ \A i \in 2..Len(ledger) :
               ledger[i].remaining_balance =
                 ledger[i - 1].remaining_balance - ledger[i].payment_amount
          /\ ledger[Len(ledger)].remaining_balance =
               users[u].total_loan - ExactSum(ledger)

\* What the code keeps instead: each balance is the float nearest to the
\* balance before it minus the amount.
C1_FloatRecurrence ==
  \A u \in DOMAIN users :
    LET ledger == Ledger(u)
    IN  \A i \in 2..Len(ledger) :
          ledger[i].remaining_balance =
            FloatSub(ledger[i - 1].remaining_balance, ledger[i].payment_amount)

\* C2: a successful add_user leaves for the new key a ledger of exactly one
\* Payment, of amount 0 and with the parsed principal as its balance, and a
\* view_history of that key that follows immediately answers with exactly
\* that one entry.
C2_RegisterThenHistory ==
  [][ /\ \A q \in AddUserRequests :
           ( /\ response'.handler = "add_user"
             /\ response'.outcome = "success"
             /\ add_user(q.name, q.total_loan, q.contact_info) ) =>
             LET u == Len(users')
                 ledger == PaymentsOf(payments', u)
             IN  /\ Len(users') = Len(users) + 1
                 /\ users'[u].total_loan = ParseFloat(q.total_loan).val
                 /\ Len(ledger) = 1
                 /\ ledger[1].payment_amount = 0
                 /\ ledger[1].remaining_balance = ParseFloat(q.total_loan).val
      /\ \A k \in UrlUsernames :
           ( /\ response.handler = "add_user"
             /\ response.outcome = "success"
             /\ response'.handler = "view_history"
             /\ users[Len(users)].username = k
             /\ view_history(k) ) =>
             /\ response'.outcome = "ok"
             /\ Len(response'.records) = 1
             /\ response'.records[1].Payment_Amount = << "0", ".", "0" >>
             /\ response'.records[1].Remaining_Balance =
                  FormatFloat(users[Len(users)].total_loan)
             /\ response'.total_paid = 0
             /\ response'.remaining_balance = users[Len(users)].total_loan
    ]_vars

\* C2's case: a history answered for the newest user, whose ledger is the
\* opening entry alone.
C2_Witness ==
  /\ response.handler = "view_history"
  /\ response.outcome = "ok"
  /\ users # << >>
  /\ response.username = users[Len(users)].username
  /\ Len(Ledger(Len(users))) = 1
  /\ Len(response.records) = 1
  /\ response.remaining_balance = users[Len(users)].total_loan

\* C3: every existing user has a ledger that is not empty and starts with
\* the opening entry, of amount 0 and with the user's principal as balance.
C3_OpeningEntry ==
  \A u \in DOMAIN users :
    /\ Ledger(u) # << >>
    /\ Ledger(u)[1].payment_amount = 0
    /\ Ledger(u)[1].remaining_balance = users[u].total_loan

\* C3's case: two users exist, one of them with a payment after the opening
\* entry.
C3_Witness ==
  /\ Len(users) = 2
  /\ \E u \in DOMAIN users : Len(Ledger(u)) >= 2

\* The fields of an add_user request pass its validation.
AddUserFieldsValid(q) ==
  /\ strip(q.name) # << >>
  /\ strip(q.total_loan) # << >>
  /\ ParseFloat(q.total_loan).ok

\* C4: an add_user request whose name normalizes to the key of an existing
\* user adds no User and no Payment, and, its fields being valid (they are
\* validated first), is answered AlreadyExists.
C4_DuplicateRejected ==
  [][ \A q \in AddUserRequests :
        ( /\ response'.handler = "add_user"
          /\ \E i \in DOMAIN users :
               users[i].username = sanitize_username(q.name)
          /\ add_user(q.name, q.total_loan, q.contact_info) ) =>
          /\ users' = users
          /\ payments' = payments
          /\ AddUserFieldsValid(q) => response'.outcome = "AlreadyExists"
    ]_vars

\* C4's case: AlreadyExists answered to a name that is not the stored one.
C4_Witness ==
  /\ response.handler = "add_user"
  /\ response.outcome = "AlreadyExists"
  /\ Len(users) = 1
  /\ users[1].name = << "a", "l" >>

\* The fields of a record_payment request pass its validation.
PaymentFieldsValid(q) ==
  /\ q.username # << >>
  /\ strip(q.payment_amount) # << >>
  /\ ParseFloat(q.payment_amount).ok

\* C5: a record_payment request naming a key no user has appends no Payment
\* and creates no User, and, its fields being valid (they are validated
\* first), is answered NotFound.
C5_UnknownUserRejected ==
  [][ \A q \in PaymentRequests :
        ( /\ response'.handler = "record_payment"
          /\ \A i \in DOMAIN users : users[i].username # q.username
          /\ record_payment(q.username, q.payment_amount, q.notes) ) =>
          /\ users' = users
          /\ payments' = payments
          /\ PaymentFieldsValid(q) => response'.outcome = "NotFound"
    ]_vars

\* C5's case: NotFound answered while users exist.
C5_Witness ==
  /\ response.handler = "record_payment"
  /\ response.outcome = "NotFound"
  /\ users # << >>

\* A text that reads as a number: after trimming, an optional sign and then
\* nothing but digits, at least one.
ReadsAsNumber(text) ==
  LET t == strip(text)
  IN  /\ t # << >>
      /\ \A i \in 2..Len(t) : t[i] \in DigitSet
      /\ \/ t[1] \in DigitSet
         \/ t[1] \in { "+", "-" } /\ Len(t) >= 2

\* C6: add_user with an empty name, an empty principal or a principal that
\* is no number, and record_payment with an empty user, an empty amount or
\* an amount that is no number, are answered ValidationError and change
\* neither table.
C6_ValidationNoEffect ==
  [][ /\ \A q \in AddUserRequests :
           ( /\ response'.handler = "add_user"
             /\ \/ strip(q.name) = << >>
                \/ strip(q.total_loan) = << >>
                \/ ~ReadsAsNumber(q.total_loan)
             /\ add_user(q.name, q.total_loan, q.contact_info) ) =>
             /\ response'.outcome = "ValidationError"
             /\ UNCHANGED << users, payments >>
      /\ \A q \in PaymentRequests :
           ( /\ response'.handler = "record_payment"
             /\ \/ q.username = << >>
                \/ strip(q.payment_amount) = << >>
                \/ ~ReadsAsNumber(q.payment_amount)
             /\ record_payment(q.username, q.payment_amount, q.notes) ) =>
             /\ response'.outcome = "ValidationError"
             /\ UNCHANGED << users, payments >>
    ]_vars

\* C6's case: a payment rejected by validation while a ledger exists.
C6_Witness ==
  /\ response.handler = "record_payment"
  /\ response.outcome = "ValidationError"
  /\ payments # << >>

\* C7: whatever the interleaving of add_user and record_payment requests,
\* no two User rows have the same key, and the key of a row never changes.
C7_UniqueImmutableKeys ==
  /\ [](\A i, j \in DOMAIN users :
          users[i].username = users[j].username => i = j)
  /\ [][\A i \in DOMAIN users :
          i \in DOMAIN users' /\ users'[i].username = users[i].username]_vars

\* C7's case: two add_user requests found the same key free, one committed
\* its user and the database refused the other's.
C7_Witness ==
  \E w \in Workers :
    /\ wreq[w].handler = "add_user"
    /\ wreq[w].outcome = "IntegrityError"
    /\ Len(users) = 1

\* Workers a and b have both recorded a payment for the same user after
\* reading the same last row, and b committed after a.
Raced(a, b) ==
  /\ a # b
  /\ wreq[a].handler = "record_payment"
  /\ wreq[b].handler = "record_payment"
  /\ wreq[a].outcome = "success"
  /\ wreq[b].outcome = "success"
  /\ wreq[a].user_id = wreq[b].user_id
  /\ wreq[a].read_id = wreq[b].read_id
  /\ wreq[a].payment_id < wreq[b].payment_id

\* C9: two record_payment requests for one key that run at once can both
\* read the same last balance before either appends, and then the later
\* row's balance is that balance minus the later amount alone: the earlier
\* payment is in the ledger and missing from the balance.
C9_LostUpdate ==
  \A a, b \in Workers :
    Raced(a, b) =>
      /\ payments[wreq[a].payment_id].user_id = wreq[a].user_id
      /\ payments[wreq[b].payment_id].remaining_balance =
           FloatSub(payments[wreq[b].read_id].remaining_balance,
                    wreq[b].payment_val)

\* C9's case: after such a race, with no rounding in either subtraction,
\* the last balance of the ledger is not the principal minus the sum of the
\* recorded amounts.
C9_Witness ==
  \E a, b \in Workers :
    /\ Raced(a, b)
    /\ \A w \in { a, b } :
         payments[wreq[w].payment_id].remaining_balance =
           payments[wreq[w].read_id].remaining_balance - wreq[w].payment_val
    /\ LET u == wreq[a].user_id
           ledger == Ledger(u)
       IN  /\ ledger[Len(ledger)].id = wreq[b].payment_id
           /\ ledger[Len(ledger)].remaining_balance #
                users[u].total_loan - ExactSum(ledger)

\* C10: no step removes or changes a row of either table, so every ledger
\* only grows at its end; a successful record_payment for key k appends
\* exactly one Payment, to the ledger of k, and leaves the other ledgers
\* and the User table as they were.
C10_AppendOnly ==
  [][ /\ IsPrefix(users, users')
      /\ IsPrefix(payments, payments')
      /\ \A u \in DOMAIN users :
           IsPrefix(PaymentsOf(payments, u), PaymentsOf(payments', u))
      /\ \A q \in PaymentRequests :
           ( /\ response'.handler = "record_payment"
             /\ response'.outcome = "success"
             /\ record_payment(q.username, q.payment_amount, q.notes) ) =>
             LET k == UserByUsername(users, q.username)
             IN  /\ users' = users
                 /\ users[k].username = q.username
                 /\ Len(payments') = Len(payments) + 1
                 /\ PaymentsOf(payments', k) =
                      Append(PaymentsOf(payments, k), payments'[Len(payments')])
                 /\ \A u \in DOMAIN users \ { k } :
                      PaymentsOf(payments', u) = PaymentsOf(payments, u)
    ]_vars

\* C10's case: a payment was recorded for one of two users.
C10_Witness ==
  /\ response.handler = "record_payment"
  /\ response.outcome = "success"
  /\ Len(users) = 2
  /\ Len(payments) = 3

\* The key as C8 describes it: the lower-cased name with every run of
\* whitespace replaced by one underscore, then without the characters
\* outside [a-z0-9_-].
ClaimedKey(raw) == sub_disallowed(sub_whitespace(lower(raw)))

\* C8 (as claimed): normalize_identity lower-cases, replaces every run of
\* whitespace by one underscore and then drops the characters outside
\* [a-z0-9_-]; "John Doe" gives "john_doe" and "  A!!b **C " gives "a_b_c".
C8_AsClaimed ==
  npc = "done" =>
    /\ nkey = ClaimedKey(nraw)
    /\ nraw = JohnDoe => nkey = << "j", "o", "h", "n", "_", "d", "o", "e" >>
    /\ nraw = SpacedExample => nkey = << "a", "_", "b", "_", "c" >>

\* What the character at place i of the raw name contributes to the key:
\* a character of [a-z0-9_-] itself, an upper-case letter its lower-case
\* letter, the first whitespace of a run that has a character that is not
\* whitespace on both sides one underscore, anything else nothing.
KeyPiece(raw, i) ==
  IF IsSpace(raw[i])
    THEN IF /\ i > 1
            /\ ~IsSpace(raw[i - 1])
            /\ \E j \in (i + 1)..Len(raw) : ~IsSpace(raw[j])
           THEN << "_" >>
           ELSE << >>
    ELSE IF LowerChar(raw[i]) \in KeyChars
           THEN << LowerChar(raw[i]) >>
           ELSE << >>

RECURSIVE KeyPieces(_, _)
KeyPieces(raw, n) ==
  IF n = 0 THEN << >> ELSE KeyPieces(raw, n - 1) \o KeyPiece(raw, n)

\* C8 (amended): sanitize_username drops leading and trailing whitespace,
\* lower-cases, replaces every remaining run of whitespace by one
\* underscore and only then drops the characters outside [a-z0-9_-];
\* "John Doe" gives "john_doe" and "  A!!b **C " gives "ab_c".
C8_Normalization ==
  npc = "done" =>
    /\ nkey = KeyPieces(nraw, Len(nraw))
    /\ \A i \in DOMAIN nkey : nkey[i] \in KeyChars
    /\ nraw = JohnDoe => nkey = << "j", "o", "h", "n", "_", "d", "o", "e" >>
    /\ nraw = SpacedExample => nkey = << "a", "b", "_", "c" >>

\* C8's case: the second example has been normalized.
C8_Witness == npc = "done" /\ nraw = SpacedExample /\ nkey = << "a", "b", "_", "c" >>

\* The amounts of a ledger added up as floats from the first entry on,
\* starting from acc.
RECURSIVE AddUp(_, _)
AddUp(acc, ledger) ==
  IF ledger = << >> THEN acc
  ELSE AddUp(FloatAdd(acc, Head(ledger).payment_amount), Tail(ledger))

\* The rows of the Payment table that belong to user row u, by ascending id.
RowsOf(u) ==
  LET ids == { i \in DOMAIN payments : payments[i].user_id = u }
      Nth[n \in 1..Cardinality(ids)] ==
        CHOOSE i \in ids : Cardinality({ j \in ids : j < i }) = n - 1
  IN  [ n \in 1..Cardinality(ids) |-> payments[Nth[n]] ]

\* view_history's answer but for total_paid: the user's payments in
\* insertion order, and the balance of the last of them (the principal, had
\* the user none) as the current balance.
HistoryOf(u) ==
  /\ users[u].username = response.username
  /\ Len(response.records) = Len(RowsOf(u))
  /\ \A i \in DOMAIN response.records :
       /\ response.records[i].Date = RowsOf(u)[i].date
       /\ response.records[i].Payment_Amount =
            FormatFloat(RowsOf(u)[i].payment_amount)
       /\ response.records[i].Remaining_Balance =
            FormatFloat(RowsOf(u)[i].remaining_balance)
       /\ response.records[i].Notes = RowsOf(u)[i].notes
  /\ response.remaining_balance =
       IF RowsOf(u) = << >> THEN users[u].total_loan
       ELSE RowsOf(u)[Len(RowsOf(u))].remaining_balance

\* view_history changes neither table, and it answers for every existing
\* user a URL can name.
HistoryReadOnly ==
  /\ response'.handler = "view_history" =>
       users' = users /\ payments' = payments
  /\ \A k \in UrlUsernames :
       ( /\ response'.handler = "view_history"
         /\ \E u \in DOMAIN users : users[u].username = k
         /\ view_history(k) ) =>
         response'.outcome = "ok" /\ response'.username = k

\* C11 (as claimed): view_history of an existing user answers with that
\* user's payments in insertion order, with total_paid equal to the sum of
\* all their amounts and with the balance of the last of them (the
\* principal, had the user none) as the current balance, and it changes
\* neither table.
C11_TotalPaidIsSum ==
  /\ []( (response.handler = "view_history" /\ response.outcome = "ok") =>
           \E u \in DOMAIN users :
             HistoryOf(u) /\ response.total_paid = ExactSum(RowsOf(u)) )
  /\ [][HistoryReadOnly]_vars

\* What the code answers instead: total_paid is the amounts added up one by
\* one as floats, each addition rounded; the rest is as claimed.
C11_FloatTotal ==
  /\ []( (response.handler = "view_history" /\ response.outcome = "ok") =>
           \E u \in DOMAIN users :
             HistoryOf(u) /\ response.total_paid = AddUp(0, RowsOf(u)) )
  /\ [][HistoryReadOnly]_vars

\* Lexical order of two keys: they agree up to some position, where a ends
\* and b goes on, or where a has the smaller character.
LexLess(a, b) ==
  \E n \in 0..Len(a) :
    /\ n <= Len(b)
    /\ SubSeq(a, 1, n) = SubSeq(b, 1, n)
    /\ \/ n = Len(a) /\ n < Len(b)
       \/ n < Len(a) /\ n < Len(b) /\ CharCode(a[n + 1]) < CharCode(b[n + 1])

\* A list of keys that holds every existing user's key exactly once, in
\* ascending lexical order.
AllKeysAscending(keys) ==
  /\ Len(keys) = Len(users)
  /\ \A u \in DOMAIN users :
       Cardinality({ i \in DOMAIN keys : keys[i] = users[u].username }) = 1
  /\ \A i \in DOMAIN keys : \A j \in DOMAIN keys :
       i < j => LexLess(keys[i], keys[j])

\* C12: the user list that index (and view_history) answers with holds the
\* keys of all existing users, each exactly once, in ascending lexical
\* order, whatever the order in which the users were registered.
C12_KeysAscending ==
  /\ (response.handler = "index" /\ response.outcome = "ok") =>
       AllKeysAscending(response.users)
  /\ (response.handler = "view_history" /\ response.outcome = "ok") =>
       AllKeysAscending(response.users)

\* C12's case: the list of two users of which the later registered one has
\* the smaller key.
C12_Witness ==
  /\ response.handler = "index"
  /\ Len(users) = 2
  /\ LexLess(users[2].username, users[1].username)
  /\ response.users = << users[2].username, users[1].username >>

\* A CSV text read back: its lines, each up to its line break, and the
\* fields of a line, each up to its comma (no field of the model holds a
\* comma, a quote or a line break).
LineBreaks(text) ==
  { i \in 1..(Len(text) - 1) : text[i] = "\r" /\ text[i + 1] = "\n" }

RECURSIVE LinesOf(_)
LinesOf(text) ==
  IF text = << >> THEN << >>
  ELSE IF LineBreaks(text) = { } THEN << text >>
  ELSE LET cut == CHOOSE i \in LineBreaks(text) :
                    \A j \in LineBreaks(text) : i <= j
       IN  << SubSeq(text, 1, cut - 1) >>
             \o LinesOf(SubSeq(text, cut + 2, Len(text)))

Commas(line) == { i \in DOMAIN line : line[i] = "," }

RECURSIVE FieldsOf(_)
FieldsOf(line) ==
  IF Commas(line) = { } THEN << line >>
  ELSE LET cut == CHOOSE i \in Commas(line) : \A j \in Commas(line) : i <= j
       IN  << SubSeq(line, 1, cut - 1) >>
             \o FieldsOf(SubSeq(line, cut + 1, Len(line)))

\* The export of user row u: the header line, then one line per payment of
\* the user in insertion order, of date, amount, balance and note.
ExportOf(u, body) ==
  LET lines == LinesOf(body)
      rows  == RowsOf(u)
  IN  /\ Len(lines) = 1 + Len(rows)
      /\ FieldsOf(lines[1]) =
           << << "Date" >>, << "Payment_Amount" >>, << "Remaining_Balance" >>,
              << "Notes" >> >>
      /\ \A i \in DOMAIN rows :
           FieldsOf(lines[i + 1]) =
             << rows[i].date, FormatFloat(rows[i].payment_amount),
                FormatFloat(rows[i].remaining_balance), rows[i].notes >>

\* download changes neither table; for a key no user has it answers not
\* found, and for an existing user's key it answers with an export.
ExportReadOnly ==
  /\ response'.handler = "download" =>
       users' = users /\ payments' = payments
  /\ \A k \in UrlUsernames :
       (response'.handler = "download" /\ download(k)) =>
         IF \E u \in DOMAIN users : users[u].username = k
           THEN /\ response'.outcome = "ok"
                /\ response'.download_name = k \o << ".csv" >>
           ELSE response'.outcome = "NotFound"

\* C13: download of an existing user yields the header row Date,
\* Payment_Amount, Remaining_Balance, Notes followed by exactly one row per
\* Payment of that user, in insertion order, each row carrying that
\* payment's date, amount, balance and note in that column order (no note
\* as the empty string); download of an unknown key yields not found, and
\* download changes neither table.
C13_Export ==
  /\ []( (response.handler = "download" /\ response.outcome = "ok") =>
           \E u \in DOMAIN users :
             /\ users[u].username \o << ".csv" >> = response.download_name
             /\ ExportOf(u, response.body) )
  /\ [][ExportReadOnly]_vars

\* C13's case: the export of a user with a payment after the opening entry,
\* of an amount that differs from the balance it leaves, and without a note.
C13_Witness ==
  /\ response.handler = "download"
  /\ response.outcome = "ok"
  /\ \E u \in DOMAIN users :
       /\ users[u].username \o << ".csv" >> = response.download_name
       /\ Len(RowsOf(u)) >= 2
       /\ RowsOf(u)[2].payment_amount # RowsOf(u)[2].remaining_balance
       /\ RowsOf(u)[2].notes = << >>

\* The other case of C13: a download of a key no user has.
C13_WitnessNotFound ==
  /\ response.handler = "download"
  /\ response.outcome = "NotFound"

\* A record_payment step that succeeds for a user without any Payment
\* appends one Payment of that user whose balance is prior minus its amount,
\* in floats; prior gives the prior balance of every user row.
FirstPaymentFrom(prior) ==
  (response'.handler = "record_payment" /\ response'.outcome = "success") =>
    \A u \in DOMAIN users :
      (users[u].username = response'.username /\ RowsOf(u) = << >>) =>
        /\ users' = users
        /\ Len(payments') = Len(payments) + 1
        /\ SubSeq(payments', 1, Len(payments)) = payments
        /\ LET p == payments'[Len(payments')]
           IN  /\ p.user_id = users[u].id
               /\ p.remaining_balance = FloatSub(prior[u], p.payment_amount)

PriorZero == [ u \in DOMAIN users |-> 0 ]

PriorPrincipal == [ u \in DOMAIN users |-> users[u].total_loan ]

\* C14 (as claimed): when record_payment runs for an existing user that has
\* no prior Payment, it treats the prior balance as 0, so the appended
\* Payment has remaining_balance = 0 - amount.
C14_PriorIsZero == [][FirstPaymentFrom(PriorZero)]_vars

\* C14 (amended): when record_payment runs for an existing user that has no
\* prior Payment, it treats the prior balance as the user's principal
\* (total_loan), so the appended Payment has remaining_balance =
\* total_loan - amount.
C14_PriorIsPrincipal == [][FirstPaymentFrom(PriorPrincipal)]_vars

\* C14's case: a payment has been recorded as the first entry of the ledger
\* of a user whose principal is not 0.
C14_Witness ==
  /\ response.handler = "record_payment"
  /\ response.outcome = "success"
  /\ \E u \in DOMAIN users :
       /\ users[u].username = response.username
       /\ users[u].total_loan # 0
       /\ Len(RowsOf(u)) = 1
       /\ RowsOf(u)[1].payment_amount # 0

\* A record_payment request that names exactly the key of an existing user,
\* with an amount that reads as a number, is answered with success and
\* appends one Payment of that user; this for every request of reqs.
PaidWhenNamedIn(reqs) ==
  \A q \in reqs :
    ( /\ response'.handler = "record_payment"
      /\ \E u \in DOMAIN users : users[u].username = q.username
      /\ ReadsAsNumber(q.payment_amount)
      /\ record_payment(q.username, q.payment_amount, q.notes) ) =>
      /\ response'.outcome = "success"
      /\ Len(payments') = Len(payments) + 1
      /\ \E u \in DOMAIN users :
           /\ users[u].username = q.username
           /\ payments'[Len(payments')].user_id = users[u].id

\* C15 (as claimed): every user that a successful add_user creates can be
\* paid against: the stored key is not empty, so a later record_payment
\* naming exactly that key with a numeric amount passes validation, finds
\* the user and appends a Payment.
C15_RegisteredCanBePaid ==
  /\ [](\A u \in DOMAIN users : users[u].username # << >>)
  /\ [][PaidWhenNamedIn(PaymentRequests)]_vars

\* The second half of C15 alone, which the same user breaks.
C15_PaidWhenNamed == [][PaidWhenNamedIn(PaymentRequests)]_vars

\* What holds instead: a user is paid against when named, unless its key is
\* empty.
C15_PaidWhenNamedNonEmpty ==
  [][PaidWhenNamedIn({ q \in PaymentRequests : q.username # << >> })]_vars

=============================================================================
